---- MODULE Spec2Model ----
(***************************************************************************)
(* Model of the flashcards program (src/main.go): the generic doubly      *)
(* linked List (a ring anchored by a sentinel), the OrderedMap built from *)
(* a Go map plus that List, and the operations on them.                   *)
(*                                                                         *)
(* Pointers are heap indices.  An OrderedMap value is a record            *)
(*   pairs : the Go map  K -> *Pair  (a function whose DOMAIN is the set  *)
(*           of present keys),                                             *)
(*   pair  : the heap of Pair structs, indexed by *Pair,                   *)
(*   list  : the List struct  [elem, len]  where elem is the heap of      *)
(*           Element structs indexed by *Element and elem[Root] is the    *)
(*           sentinel l.root.                                              *)
(***************************************************************************)
EXTENDS Integers, Sequences, FiniteSets, TLC

\* ------------------------------------------------------------------ bounds

\* Number of Pair / Element structs the heap can hold at one time.
MaxElems == 3

\* ------------------------------------------------------- values and pointers

\* Keys offered to Set / Get / Delete (K = string in the program).
Keys == {"a", "b", "c"}

\* The zero value of V (V = string in Cards.TermToDef).
ZeroV == ""

\* Values offered to Set; the zero value is a legal argument.  The code
\* never inspects a value, so one non-zero value beside the zero value
\* distinguishes every outcome.
Values == {ZeroV, "x"}

\* The nil pointer.
Nil == -1

\* &l.root, the address of the list's sentinel element.
Root == 0

\* The address of the List an OrderedMap owns (om.list).
Self == 1

ElemIds == 1..MaxElems
PairIds == 1..MaxElems

\* Element[T]{} : every field at its zero value.
ZeroElement == [next |-> Nil, prev |-> Nil, list |-> Nil, Value |-> Nil]

\* Pair[K, V]{} : every field at its zero value.
ZeroPair == [Key |-> "", Value |-> ZeroV, element |-> Nil]

\* new(List[T]) : the zero List, root.next = root.prev = nil, len = 0.
ZeroList == [elem |-> [e \in {Root} \cup ElemIds |-> ZeroElement], len |-> 0]

Range(f) == {f[x] : x \in DOMAIN f}

\* ------------------------------------------------------------------- List

\* func (l *List[T]) Init() *List[T]
ListInit(l) ==
  LET l1 == [l EXCEPT !.elem[Root].next = Root]
      l2 == [l1 EXCEPT !.elem[Root].prev = Root]
  IN [l2 EXCEPT !.len = 0]

\* func NewList[T any]() *List[T]
NewList == ListInit(ZeroList)

\* func (l *List[T]) lazyInit()
lazyInit(l) == IF l.elem[Root].next = Nil THEN ListInit(l) ELSE l

\* The elements reachable from the sentinel by next or prev pointers.
RECURSIVE Closure(_, _, _)
Closure(l, S, fuel) ==
  LET T == S \cup (({l.elem[e].next : e \in S} \cup {l.elem[e].prev : e \in S}) \ {Nil})
  IN IF fuel = 0 \/ T = S THEN S ELSE Closure(l, T, fuel - 1)

Linked(l) == Closure(l, {Root}, MaxElems + 1)

\* &Element[T]{...} : the address of a freshly allocated Element, one that
\* nothing reachable refers to.
newElement(l, held) ==
  LET free == {e \in ElemIds : e \notin Linked(l) /\ e \notin held}
  IN IF free = {} THEN Nil ELSE CHOOSE e \in free : \A f \in free : e <= f

\* Faulty variant of insert: the length counter is not incremented.
insert_NoLenIncrement(l, e, at) ==
  LET l1 == [l EXCEPT !.elem[e].prev = at]
      l2 == [l1 EXCEPT !.elem[e].next = l1.elem[at].next]
      l3 == [l2 EXCEPT !.elem[l2.elem[e].prev].next = e]
      l4 == [l3 EXCEPT !.elem[l3.elem[e].next].prev = e]
      l5 == [l4 EXCEPT !.elem[e].list = Self]
  IN [l |-> l5, e |-> e]

\* func (l *List[T]) insert(e, at *Element[T]) *Element[T]
insert(l, e, at) ==
  LET l1 == [l EXCEPT !.elem[e].prev = at]
      l2 == [l1 EXCEPT !.elem[e].next = l1.elem[at].next]
      l3 == [l2 EXCEPT !.elem[l2.elem[e].prev].next = e]
      l4 == [l3 EXCEPT !.elem[l3.elem[e].next].prev = e]
      l5 == [l4 EXCEPT !.elem[e].list = Self]
  IN [l |-> [l5 EXCEPT !.len = @ + 1], e |-> e]

\* func (l *List[T]) insertValue(v T, at *Element[T]) *Element[T]
\* held: the elements the caller still refers to (they are not free).
insertValue(l, v, at, held) ==
  LET e == newElement(l, held)
      l1 == [l EXCEPT !.elem[e] = [ZeroElement EXCEPT !.Value = v]]
  IN insert(l1, e, at)

\* Faulty variant of PushBack: the element is inserted after the sentinel,
\* at the front of the list.
PushBack_AtFront(l, v, held) ==
  LET l1 == lazyInit(l)
  IN insertValue(l1, v, Root, held)

\* func (l *List[T]) PushBack(v T) *Element[T]
PushBack(l, v, held) ==
  LET l1 == lazyInit(l)
  IN insertValue(l1, v, l1.elem[Root].prev, held)

\* Faulty variant of remove: the predecessor's next pointer is not repaired.
remove_SkipNextRepair(l, e) ==
  LET l2 == [l EXCEPT !.elem[l.elem[e].next].prev = l.elem[e].prev]
      l3 == [l2 EXCEPT !.elem[e].next = Nil]
      l4 == [l3 EXCEPT !.elem[e].prev = Nil]
      l5 == [l4 EXCEPT !.elem[e].list = Nil]
  IN [l5 EXCEPT !.len = @ - 1]

\* func (l *List[T]) remove(e *Element[T])
remove(l, e) ==
  LET l1 == [l EXCEPT !.elem[l.elem[e].prev].next = l.elem[e].next]
      l2 == [l1 EXCEPT !.elem[l1.elem[e].next].prev = l1.elem[e].prev]
      l3 == [l2 EXCEPT !.elem[e].next = Nil]
      l4 == [l3 EXCEPT !.elem[e].prev = Nil]
      l5 == [l4 EXCEPT !.elem[e].list = Nil]
  IN [l5 EXCEPT !.len = @ - 1]

\* func (l *List[T]) Remove(e *Element[T]) T
Remove(l, e) ==
  LET l1 == IF l.elem[e].list = Self THEN remove(l, e) ELSE l
  IN [l |-> l1, Value |-> l1.elem[e].Value]

\* Faulty variant of Front: it returns the sentinel's prev, the last element.
Front_ReturnsBack(l) == IF l.len = 0 THEN Nil ELSE l.elem[Root].prev

\* func (l *List[T]) Front() *Element[T]
Front(l) == IF l.len = 0 THEN Nil ELSE l.elem[Root].next

\* func (l *List[T]) Back() *Element[T]
Back(l) == IF l.len = 0 THEN Nil ELSE l.elem[Root].prev

\* func (e *Element[T]) Next() *Element[T]
\* e.list is Self or nil, so &e.list.root is Root.
ElementNext(l, e) ==
  LET p == l.elem[e].next
  IN IF l.elem[e].list # Nil /\ p # Root THEN p ELSE Nil

\* The elements linked in the ring: those met by following next from the
\* sentinel.
RECURSIVE NextReach(_, _, _)
NextReach(l, e, fuel) ==
  IF e = Nil \/ e = Root \/ fuel = 0 THEN {}
  ELSE {e} \cup NextReach(l, l.elem[e].next, fuel - 1)

RingElements(l) == NextReach(l, l.elem[Root].next, MaxElems + 1)

\* ------------------------------------------------------------- OrderedMap

\* func New[K comparable, V any]() *OrderedMap[K, V]
New ==
  [pairs |-> [k \in {} |-> Nil],
   pair  |-> [p \in PairIds |-> ZeroPair],
   list  |-> NewList]

\* &Pair[K, V]{...} : the address of a freshly allocated Pair, one that
\* neither the map nor a linked element refers to.
newPair(om) ==
  LET used == Range(om.pairs) \cup {om.list.elem[e].Value : e \in Linked(om.list) \ {Root}}
      free == {p \in PairIds : p \notin used}
  IN IF free = {} THEN Nil ELSE CHOOSE p \in free : \A q \in free : p <= q

\* The elements the map's pairs refer to.
HeldElements(om) == {om.pair[p].element : p \in Range(om.pairs)} \ {Nil}

\* func (om *OrderedMap[K, V]) Get(key K) (val V, present bool)
Get(om, key) ==
  IF key \in DOMAIN om.pairs
  THEN [val |-> om.pair[om.pairs[key]].Value, present |-> TRUE]
  ELSE [val |-> ZeroV, present |-> FALSE]

\* The fresh-key branch of Set (lines 110-117), shared by the variants below.
SetFresh(om, key, value) ==
  LET pair == newPair(om)
      om1 == [om EXCEPT !.pair[pair] = [ZeroPair EXCEPT !.Key = key, !.Value = value]]
      pb  == PushBack(om1.list, pair, HeldElements(om1))
      om2 == [om1 EXCEPT !.list = pb.l, !.pair[pair].element = pb.e]
      om3 == [om2 EXCEPT !.pairs = (key :> pair) @@ om2.pairs]
  IN [om |-> om3, val |-> ZeroV, present |-> FALSE]

\* Faulty variant of Set: on a present key it returns the value it has just
\* stored instead of the one it replaced.
Set_ReturnsNewValue(om, key, value) ==
  IF key \in DOMAIN om.pairs
  THEN LET pair == om.pairs[key]
           om1 == [om EXCEPT !.pair[pair].Value = value]
       IN [om |-> om1, val |-> om1.pair[pair].Value, present |-> TRUE]
  ELSE SetFresh(om, key, value)

\* Faulty variant of Set: on a present key the stored value is not replaced.
Set_NoUpdate(om, key, value) ==
  IF key \in DOMAIN om.pairs
  THEN [om |-> om, val |-> om.pair[om.pairs[key]].Value, present |-> TRUE]
  ELSE SetFresh(om, key, value)

\* Faulty variant of Set: on a present key the pair's element is unlinked
\* and linked again at the back (an update counts as a new insertion).
Set_MoveToBack(om, key, value) ==
  IF key \in DOMAIN om.pairs
  THEN LET pair == om.pairs[key]
           oldValue == om.pair[pair].Value
           e   == om.pair[pair].element
           l1  == remove(om.list, e)
           l2  == insert(l1, e, l1.elem[Root].prev).l
       IN [om |-> [om EXCEPT !.pair[pair].Value = value, !.list = l2],
           val |-> oldValue, present |-> TRUE]
  ELSE SetFresh(om, key, value)

\* func (om *OrderedMap[K, V]) Set(key K, value V) (val V, present bool)
Set(om, key, value) ==
  IF key \in DOMAIN om.pairs
  THEN LET pair == om.pairs[key]
           oldValue == om.pair[pair].Value
       IN [om |-> [om EXCEPT !.pair[pair].Value = value],
           val |-> oldValue, present |-> TRUE]
  ELSE SetFresh(om, key, value)

\* Faulty variant of Delete: the map entry is deleted but the pair's element
\* is left linked in the list.
Delete_SkipListRemove(om, key) ==
  IF key \in DOMAIN om.pairs
  THEN LET pair == om.pairs[key]
           om2 == [om EXCEPT !.pairs = [k \in (DOMAIN om.pairs) \ {key} |-> om.pairs[k]]]
       IN [om |-> om2, val |-> om2.pair[pair].Value, present |-> TRUE]
  ELSE [om |-> om, val |-> ZeroV, present |-> FALSE]

\* Faulty variant of Delete: the presence test is lost for the length, which
\* is decremented also when the key is absent.
Delete_AbsentDecrementsLen(om, key) ==
  IF key \in DOMAIN om.pairs
  THEN LET pair == om.pairs[key]
           rm  == Remove(om.list, om.pair[pair].element)
           om1 == [om EXCEPT !.list = rm.l]
           om2 == [om1 EXCEPT !.pairs = [k \in (DOMAIN om1.pairs) \ {key} |-> om1.pairs[k]]]
       IN [om |-> om2, val |-> om2.pair[pair].Value, present |-> TRUE]
  ELSE [om |-> [om EXCEPT !.list.len = @ - 1], val |-> ZeroV, present |-> FALSE]

\* func (om *OrderedMap[K, V]) Delete(key K) (val V, present bool)
Delete(om, key) ==
  IF key \in DOMAIN om.pairs
  THEN LET pair == om.pairs[key]
           rm  == Remove(om.list, om.pair[pair].element)
           om1 == [om EXCEPT !.list = rm.l]
           om2 == [om1 EXCEPT !.pairs = [k \in (DOMAIN om1.pairs) \ {key} |-> om1.pairs[k]]]
       IN [om |-> om2, val |-> om2.pair[pair].Value, present |-> TRUE]
  ELSE [om |-> om, val |-> ZeroV, present |-> FALSE]

\* func listElementToPair(element *Element[*Pair[K, V]]) *Pair[K, V]
listElementToPair(om, element) ==
  IF element = Nil THEN Nil ELSE om.list.elem[element].Value

\* func (om *OrderedMap[K, V]) Oldest() *Pair[K, V]
Oldest(om) == listElementToPair(om, Front(om.list))

\* func (p *Pair[K, V]) Next() *Pair[K, V]
PairNext(om, p) == listElementToPair(om, ElementNext(om.list, om.pair[p].element))

\* for pair := om.Oldest(); pair != nil; pair = pair.Next() { ... }
\* The pairs the loop visits, in order.  The loop is cut after fuel
\* iterations; a cut loop is marked by a trailing Nil.
RECURSIVE Walk(_, _, _)
Walk(om, p, fuel) ==
  IF p = Nil THEN <<>>
  ELSE IF fuel = 0 THEN <<Nil>>
  ELSE <<p>> \o Walk(om, PairNext(om, p), fuel - 1)

Traversal(om) == Walk(om, Oldest(om), MaxElems + 1)

\* The traversal loop reaches pair == nil.
Terminates(om) == \A i \in 1..Len(Traversal(om)) : Traversal(om)[i] # Nil

\* The keys, and the <<key, value>> entries, the traversal loop reads.
TraversalKeys(om) ==
  LET t == Traversal(om)
  IN [i \in 1..Len(t) |-> IF t[i] = Nil THEN "" ELSE om.pair[t[i]].Key]

TraversalEntries(om) ==
  LET t == Traversal(om)
  IN [i \in 1..Len(t) |-> IF t[i] = Nil THEN <<"", ZeroV>>
                          ELSE <<om.pair[t[i]].Key, om.pair[t[i]].Value>>]

\* ------------------------------------------------------------- card store

\* Terms and definitions the user types or a file holds.
Terms == {"a", "b"}
Defs == {"x", "y"}

\* Largest error count a card reaches by wrong answers.
MaxErrors == 1

\* type TermError struct { Term string; Errors int }
TermError(term, errors) == [Term |-> term, Errors |-> errors]

\* TermError{} : the zero value of V for Cards.DefToTerm.
ZeroTermError == TermError("", 0)

\* New[string, TermError]() : as New, the Pair structs hold a TermError.
NewTermErrorMap ==
  [New EXCEPT !.pair = [p \in PairIds |-> [ZeroPair EXCEPT !.Value = ZeroTermError]]]

\* func NewCards() *Cards
NewCards == [TermToDef |-> New, DefToTerm |-> NewTermErrorMap]

\* cards.DefToTerm.Get(def) : Get at V = TermError, whose zero value is
\* TermError{}.
GetTermError(m, def) ==
  LET r == Get(m, def)
  IN IF r.present THEN r ELSE [val |-> ZeroTermError, present |-> FALSE]

\* Faulty variant of TryAddCardTerm: every term is accepted.
TryAddCardTerm_AcceptsAll(cards, term) == TRUE

\* func TryAddCardTerm(cards *Cards, term string) bool
TryAddCardTerm(cards, term) == ~Get(cards.TermToDef, term).present

\* func TryAddCardDef(cards *Cards, def string) bool
TryAddCardDef(cards, def) == ~GetTermError(cards.DefToTerm, def).present

\* main, case "add", lines 419-420: the two Set calls that store the card.
AddCard(cards, term, def) ==
  LET c1 == [cards EXCEPT !.TermToDef = Set(cards.TermToDef, term, def).om]
  IN [c1 EXCEPT !.DefToTerm = Set(c1.DefToTerm, def, TermError(term, 0)).om]

\* The Pair and Element structs that nothing refers to any more are
\* reclaimed by the Go runtime (remove clears e.next, e.prev and e.list for
\* that purpose): their memory reads as zero when it is allocated again.
Collect(m, zeroPair) ==
  LET liveElems == Linked(m.list) \cup HeldElements(m)
      livePairs == Range(m.pairs) \cup {m.list.elem[e].Value : e \in liveElems \ {Root}}
  IN [m EXCEPT !.pair = [p \in PairIds |-> IF p \in livePairs THEN m.pair[p] ELSE zeroPair],
               !.list.elem = [e \in DOMAIN m.list.elem |->
                                IF e \in liveElems THEN m.list.elem[e] ELSE ZeroElement]]

CollectCards(cards) ==
  [TermToDef |-> Collect(cards.TermToDef, ZeroPair),
   DefToTerm |-> Collect(cards.DefToTerm, [ZeroPair EXCEPT !.Value = ZeroTermError])]

\* Faulty variant of RemoveCard: the definition stays in DefToTerm.
RemoveCard_KeepsDef(cards, term) ==
  LET g == Get(cards.TermToDef, term)
  IN IF g.present
     THEN [cards |-> [cards EXCEPT !.TermToDef = Delete(cards.TermToDef, term).om],
           ok |-> TRUE]
     ELSE [cards |-> cards, ok |-> FALSE]

\* func RemoveCard(cards *Cards, term string) bool
RemoveCard(cards, term) ==
  LET g == Get(cards.TermToDef, term)
  IN IF g.present
     THEN LET c1 == [cards EXCEPT !.DefToTerm = Delete(cards.DefToTerm, g.val).om]
              c2 == [c1 EXCEPT !.TermToDef = Delete(c1.TermToDef, term).om]
          IN [cards |-> c2, ok |-> TRUE]
     ELSE [cards |-> cards, ok |-> FALSE]

\* type Card struct { Term, Definition string; ErrorCount int }
Card(term, def, errors) == [Term |-> term, Definition |-> def, ErrorCount |-> errors]

\* A line of a file: malformed text, or a JSON object with some of the keys
\* "term", "def", "errors".
Malformed == [json |-> FALSE, obj |-> [term |-> "", def |-> ""]]

Object(o) == [json |-> TRUE, obj |-> o]

\* The lines an imported file is made of.
FileLines ==
  {Malformed}
    \cup {Object([term |-> t, def |-> d]) : t \in Terms, d \in Defs}
    \cup {Object([term |-> t, def |-> d, errors |-> 1]) : t \in Terms, d \in Defs}

\* json.Unmarshal(line, &card) into card := Card{} : an error for malformed
\* text; a key the object lacks leaves the field at its zero value.
Unmarshal(line) ==
  IF ~line.json THEN [err |-> TRUE, card |-> Card("", "", 0)]
  ELSE [err |-> FALSE,
        card |-> Card(IF "term" \in DOMAIN line.obj THEN line.obj.term ELSE "",
                      IF "def" \in DOMAIN line.obj THEN line.obj.def ELSE "",
                      IF "errors" \in DOMAIN line.obj THEN line.obj.errors ELSE 0)]

\* json.Marshal(card) : an object with the three keys of the struct tags.
Marshal(card) ==
  Object([term |-> card.Term, def |-> card.Definition, errors |-> card.ErrorCount])

\* Faulty variant of ImportLine: a record whose term is present is skipped.
ImportLine_SkipsPresent(line, cards) ==
  LET u == Unmarshal(line)
      card == u.card
  IN IF u.err
     THEN [cards |-> cards, fatal |-> TRUE, calls |-> <<>>]
     ELSE IF Get(cards.TermToDef, card.Term).present
     THEN [cards |-> cards, fatal |-> FALSE, calls |-> <<>>]
     ELSE [cards |-> AddCard(cards, card.Term, card.Definition), fatal |-> FALSE,
           calls |-> << <<"TermToDef", card.Term>>, <<"DefToTerm", card.Definition>> >>]

\* Faulty variant of ImportLine: the record is stored before err is tested.
ImportLine_SetBeforeCheck(line, cards) ==
  LET u == Unmarshal(line)
      card == u.card
      c1 == [cards EXCEPT !.TermToDef =
               Set(cards.TermToDef, card.Term, card.Definition).om]
      c2 == [c1 EXCEPT !.DefToTerm =
               Set(c1.DefToTerm, card.Definition,
                   TermError(card.Term, card.ErrorCount)).om]
  IN [cards |-> c2, fatal |-> u.err,
      calls |-> << <<"TermToDef", card.Term>>, <<"DefToTerm", card.Definition>> >>]

\* func ImportCards(file *os.File, cards *Cards) int, lines 270-279: the
\* body of the scanner loop for one line of the file.
\* fatal: log.Fatal(err) has ended the process.
\* calls: the Set calls made, as <<map, key>>, in the order made.
ImportLine(line, cards) ==
  LET u == Unmarshal(line)
      card == u.card
  IN IF u.err
     THEN [cards |-> cards, fatal |-> TRUE, calls |-> <<>>]
     ELSE LET c1 == [cards EXCEPT !.TermToDef =
                       Set(cards.TermToDef, card.Term, card.Definition).om]
              c2 == [c1 EXCEPT !.DefToTerm =
                       Set(c1.DefToTerm, card.Definition,
                           TermError(card.Term, card.ErrorCount)).om]
          IN [cards |-> c2, fatal |-> FALSE,
              calls |-> << <<"TermToDef", card.Term>>, <<"DefToTerm", card.Definition>> >>]

\* func ExportCards(file *os.File, cards *Cards) int : the loop from
\* cards.TermToDef.Oldest() by pair.Next(); out is what is written.
RECURSIVE ExportLoop(_, _, _, _, _)
ExportLoop(cards, pair, out, exported, fuel) ==
  IF pair = Nil \/ fuel = 0
  THEN [out |-> out, exported |-> exported]
  ELSE LET term == cards.TermToDef.pair[pair].Key
           def  == cards.TermToDef.pair[pair].Value
           errors == GetTermError(cards.DefToTerm, def).val
           card == Card(term, def, errors.Errors)
       IN ExportLoop(cards, PairNext(cards.TermToDef, pair),
                     Append(out, Marshal(card)), exported + 1, fuel - 1)

\* Faulty variant of ExportCards: the loop starts at the second pair.
ExportCards_SkipsOldest(cards) ==
  LET first == Oldest(cards.TermToDef)
  IN ExportLoop(cards, IF first = Nil THEN Nil ELSE PairNext(cards.TermToDef, first),
                <<>>, 0, MaxElems + 1)

ExportCards(cards) ==
  ExportLoop(cards, Oldest(cards.TermToDef), <<>>, 0, MaxElems + 1)

\* Faulty variant of AskPair: no wrap to Oldest() at the end of the map.
AskPair_NoWrap(cards, pair) == pair

\* main, case "ask", lines 461-464: the pair the prompt is made for; nil
\* when Oldest() is nil too, and then pair.Key is a nil dereference.
AskPair(cards, pair) == IF pair = Nil THEN Oldest(cards.TermToDef) ELSE pair

\* main, case "ask", lines 471-485: the answer userDef to the prompt for pair.
AskAnswer(cards, pair, userDef) ==
  LET def == cards.TermToDef.pair[pair].Value
  IN IF userDef = def THEN cards
     ELSE LET termErr == GetTermError(cards.DefToTerm, def).val
          IN [cards EXCEPT !.DefToTerm =
                Set(cards.DefToTerm, def, TermError(termErr.Term, termErr.Errors + 1)).om]

\* main, case "reset stats", lines 508-510: the loop from
\* cards.DefToTerm.Oldest() by pair.Next().  done: the loop has reached nil.
RECURSIVE ResetLoop(_, _, _, _)
ResetLoop(cards, pair, visited, fuel) ==
  IF pair = Nil THEN [cards |-> cards, visited |-> visited, done |-> TRUE]
  ELSE IF fuel = 0 THEN [cards |-> cards, visited |-> visited, done |-> FALSE]
  ELSE LET p  == cards.DefToTerm.pair[pair]
           c1 == [cards EXCEPT !.DefToTerm =
                    Set(cards.DefToTerm, p.Key, TermError(p.Value.Term, 0)).om]
       IN ResetLoop(c1, PairNext(c1.DefToTerm, pair), Append(visited, p.Key), fuel - 1)

ResetStats(cards) ==
  ResetLoop(cards, Oldest(cards.DefToTerm), <<>>, MaxElems + 1)

\* func HardestCard(cards *Cards) string, lines 347-359: the loop from
\* cards.DefToTerm.Oldest() by pair.Next() over term, mxErr and terms.
RECURSIVE HardestLoop(_, _, _, _, _, _)
HardestLoop(cards, pair, term, mxErr, terms, fuel) ==
  IF pair = Nil \/ fuel = 0 THEN [term |-> term, mxErr |-> mxErr, terms |-> terms]
  ELSE LET termError == cards.DefToTerm.pair[pair].Value
           next == PairNext(cards.DefToTerm, pair)
       IN IF termError.Errors > mxErr
          THEN HardestLoop(cards, next, termError.Term, termError.Errors,
                           <<termError.Term>>, fuel - 1)
          ELSE IF termError.Errors = mxErr
          THEN HardestLoop(cards, next, term, mxErr, Append(terms, term), fuel - 1)
          ELSE HardestLoop(cards, next, term, mxErr, terms, fuel - 1)

\* fmt.Sprintf("\"%s\"", t) for the int t of "for t := range terms", which
\* is the index: %s of an int prints %!s(int=t).
IndexText == <<"%!s(int=0)", "%!s(int=1)", "%!s(int=2)", "%!s(int=3)", "%!s(int=4)">>

\* The strings HardestCard returns.  text: the fixed part; names: what is
\* printed between quotes; errors: the %d of the single-card form.
NoErrorsText == "There are no cards with errors."
OneCardText == "The hardest card is \"%s\". You have %d errors answering it"
CardsText == "The hardest cards are %s"
Answer(text, names, errors) == [text |-> text, names |-> names, errors |-> errors]

\* Faulty variant of HardestCard: the else-if branch appends to a shadowed
\* terms, so the result is the single-card form also for a tie.
HardestCard_ShadowedTerms(cards) ==
  LET r == HardestLoop(cards, Oldest(cards.DefToTerm), "", -1, <<>>, MaxElems + 1)
  IN IF r.mxErr = 0 \/ cards.DefToTerm.list.len = 0
     THEN Answer(NoErrorsText, <<>>, 0)
     ELSE IF Len(r.terms) >= 1
     THEN Answer(OneCardText, <<r.term>>, r.mxErr)
     ELSE Answer("-1", <<>>, 0)

\* func HardestCard(cards *Cards) string
HardestCard(cards) ==
  LET r == HardestLoop(cards, Oldest(cards.DefToTerm), "", -1, <<>>, MaxElems + 1)
  IN IF r.mxErr = 0 \/ cards.DefToTerm.list.len = 0
     THEN Answer(NoErrorsText, <<>>, 0)
     ELSE IF Len(r.terms) = 1
     THEN Answer(OneCardText, <<r.term>>, r.mxErr)
     ELSE IF Len(r.terms) > 1
     THEN Answer(CardsText, [i \in 1..Len(r.terms) |-> IndexText[i]], 0)
     ELSE Answer("-1", <<>>, 0)

\* ------------------------------------------------- Lists that share a heap

\* The address of a second List, and of its sentinel &l.root.
Other == 2
Root2 == MaxElems + 1

Lists == {Self, Other}
Addrs == {Root, Root2} \cup ElemIds

\* Values pushed on a List (T = int).  The code never inspects a value; one
\* value tells the Value of a pushed Element from that of the sentinel.
ListValues == {1}

\* Two zero Lists and no Element.
ZeroWorld == [elem |-> [a \in Addrs |-> ZeroElement], len |-> 0, len2 |-> 0]

\* The List operators are written for the receiver l = Self with sentinel
\* Root; a call with the receiver Other is the same call on the heap with
\* the two addresses and the two sentinels exchanged.
SwapAddr(a) == IF a = Root THEN Root2 ELSE IF a = Root2 THEN Root ELSE a
SwapList(i) == IF i = Self THEN Other ELSE IF i = Other THEN Self ELSE i

Swapped(elem) ==
  [a \in DOMAIN elem |->
     LET x == elem[SwapAddr(a)]
     IN [next |-> SwapAddr(x.next), prev |-> SwapAddr(x.prev),
         list |-> SwapList(x.list), Value |-> x.Value]]

\* The heap as the receiver i sees it, and the heap after a call on i.
ListView(w, i) ==
  IF i = Self THEN [elem |-> w.elem, len |-> w.len]
  ELSE [elem |-> Swapped(w.elem), len |-> w.len2]

WithList(w, i, l) ==
  IF i = Self THEN [w EXCEPT !.elem = l.elem, !.len = l.len]
  ELSE [w EXCEPT !.elem = Swapped(l.elem), !.len2 = l.len]

\* What the program can still reach: the two Lists and what the caller
\* holds, and everything their next and prev pointers lead to.
Live(w, held) == Closure(w, {Root, Root2} \cup held, MaxElems + 2)

\* The garbage collector: an Element nothing reaches is gone.
ListCollect(w, held) ==
  [w EXCEPT !.elem = [a \in Addrs |-> IF a \in Live(w, held) THEN w.elem[a] ELSE ZeroElement]]

\* ------------------------------------------------------- state and actions

VARIABLES
  om,            \* the OrderedMap under test
  pre,           \* the OrderedMap as it was before the last call
  last,          \* the last call: operation, arguments and results
  firstSetOrder, \* history: present keys in the order of their first Set since their last Delete
  lastSetValue,  \* history: for each such key the value of its most recent Set
  everDeleted    \* history: the keys that a Delete has removed at some time

vars == <<om, pre, last, firstSetOrder, lastSetValue, everDeleted>>

VARIABLES
  cards,         \* the card store: the two OrderedMaps of Cards
  pc,            \* where main is: "prompt", "addTerm", "addDef", "askPrompt", "askRead", "exited", "panic"
  loc,           \* the local variables term, asks, idx, pair and imported
  open,          \* the actions whose file handle is open
  clast,         \* the last action of the card store and its result
  hist           \* history of the import under way or just made

cvars == <<cards, pc, loc, open, clast, hist>>

VARIABLES
  lw,            \* two Lists and the Elements pushed on them, on one heap
  handles,       \* the *Element values a caller of the List API holds
  llast          \* the last call of the List API and its result

lvars == <<lw, handles, llast>>

VARIABLES
  tom,           \* the OrderedMap a traversal loop runs over
  trav           \* the traversal loop: its pair and the history of its visits

tvars == <<tom, trav>>

allvars == <<vars, cvars, lvars, tvars>>

\* The heap has room for the Pair and the Element a Set on a fresh key allocates.
CanAlloc(m, k) ==
  \/ k \in DOMAIN m.pairs
  \/ newPair(m) # Nil /\ newElement(m.list, HeldElements(m)) # Nil

NoCall == [op |-> "New", key |-> "", value |-> ZeroV, val |-> ZeroV,
           present |-> FALSE, pair |-> Nil]

RECURSIVE Without(_, _)
Without(s, k) ==
  IF s = <<>> THEN <<>>
  ELSE IF Head(s) = k THEN Without(Tail(s), k)
  ELSE <<Head(s)>> \o Without(Tail(s), k)

\* main's locals before they are assigned.
NoLoc == [term |-> "", asks |-> 0, idx |-> 0, pair |-> Nil, imported |-> 0]

\* No import under way.  terms0, defs0: the traversal keys of the two maps
\* when the import began; read: the <<term, definition>> of the lines
\* deserialized so far, in file order; calls: the Set calls made so far.
NoImport == [terms0 |-> <<>>, defs0 |-> <<>>, read |-> <<>>, calls |-> <<>>]

\* No action made yet.  op: the action, ok: whether it succeeded, n: the
\* number it printed or the prompts it has made.
NoAction == [op |-> "start", ok |-> FALSE, n |-> 0]

\* New() with no call made yet.
MapInit ==
  /\ om = New
  /\ pre = New
  /\ last = NoCall
  /\ firstSetOrder = <<>>
  /\ lastSetValue = [k \in {} |-> ZeroV]
  /\ everDeleted = {}

\* main, lines 381-385: the card store before the first action.
CardsInit ==
  /\ cards = NewCards
  /\ pc = "prompt"
  /\ loc = NoLoc
  /\ open = {}
  /\ clast = NoAction
  /\ hist = NoImport

\* One List made by NewList, one by new(List) : the zero value.
ListsInit ==
  /\ lw = WithList(ZeroWorld, Self, ListInit(ListView(ZeroWorld, Self)))
  /\ handles = {}
  /\ llast = [op |-> "new", list |-> Self, linked |-> FALSE]

\* No traversal under way.  state: "idle", "running" or "done"; pair: the
\* loop variable; pending: the keys of the pairs present when the loop
\* started that are neither visited nor deleted yet, in insertion order;
\* visited: the keys of the pairs visited and not deleted since; inOrder:
\* every visit so far was of the head of pending, when there was one;
\* stale: the pair the loop stands on was deleted; mutated: a Set or Delete
\* ran since the loop started.
NoTraversal == [state |-> "idle", pair |-> Nil, pending |-> <<>>, visited |-> <<>>,
                inOrder |-> TRUE, stale |-> FALSE, mutated |-> FALSE]

\* New() and no traversal started.
TraversalInit ==
  /\ tom = New
  /\ trav = NoTraversal

Init == MapInit /\ CardsInit /\ ListsInit /\ TraversalInit

\* A caller runs om.Set(k, v).
DoSet(k, v) ==
  LET r == Set(om, k, v)
  IN /\ CanAlloc(om, k)
     /\ om' = r.om
     /\ pre' = om
     /\ last' = [NoCall EXCEPT !.op = "Set", !.key = k, !.value = v,
                               !.val = r.val, !.present = r.present]
     /\ firstSetOrder' = IF k \in Range(firstSetOrder) THEN firstSetOrder
                         ELSE Append(firstSetOrder, k)
     /\ lastSetValue' = (k :> v) @@ lastSetValue
     /\ UNCHANGED <<everDeleted, cvars, lvars, tvars>>

\* A caller runs om.Delete(k).
DoDelete(k) ==
  LET r == Delete(om, k)
  IN /\ om' = r.om
     /\ pre' = om
     /\ last' = [NoCall EXCEPT !.op = "Delete", !.key = k,
                               !.val = r.val, !.present = r.present]
     /\ firstSetOrder' = Without(firstSetOrder, k)
     /\ lastSetValue' = [j \in (DOMAIN lastSetValue) \ {k} |-> lastSetValue[j]]
     /\ everDeleted' = IF k \in Range(firstSetOrder) THEN everDeleted \cup {k}
                       ELSE everDeleted
     /\ UNCHANGED <<cvars, lvars, tvars>>

\* A caller runs om.Get(k).
DoGet(k) ==
  LET r == Get(om, k)
  IN /\ pre' = om
     /\ last' = [NoCall EXCEPT !.op = "Get", !.key = k,
                               !.val = r.val, !.present = r.present]
     /\ UNCHANGED <<om, firstSetOrder, lastSetValue, everDeleted, cvars, lvars, tvars>>

\* A caller runs om.Oldest().
DoOldest ==
  /\ pre' = om
  /\ last' = [NoCall EXCEPT !.op = "Oldest", !.pair = Oldest(om)]
  /\ UNCHANGED <<om, firstSetOrder, lastSetValue, everDeleted, cvars, lvars, tvars>>

Next ==
  \/ \E k \in Keys, v \in Values : DoSet(k, v)
  \/ \E k \in Keys : DoDelete(k)
  \/ \E k \in Keys : DoGet(k)
  \/ DoOldest

Spec == Init /\ [][Next]_allvars

\* ------------------------------------------------- card store: the main loop

\* Largest number of lines of an imported file.
MaxLines == 2

\* Largest count typed at "How many times to ask?".
MaxAsks == 3

\* What the user can answer: a definition, or text that is no definition.
Answers == Defs \cup {"?"}

\* case "add", lines 394-405: a term is read until one is absent.
CmdAdd ==
  /\ pc = "prompt"
  /\ pc' = "addTerm"
  /\ clast' = [NoAction EXCEPT !.op = "add"]
  /\ hist' = NoImport
  /\ UNCHANGED <<cards, loc, open, vars, lvars, tvars>>

AddReadTerm(term) ==
  /\ pc = "addTerm"
  /\ IF TryAddCardTerm(cards, term)
     THEN /\ pc' = "addDef"
          /\ loc' = [loc EXCEPT !.term = term]
     ELSE UNCHANGED <<pc, loc>>
  /\ clast' = [NoAction EXCEPT !.op = "addTerm", !.ok = TryAddCardTerm(cards, term)]
  /\ UNCHANGED <<cards, open, hist, vars, lvars, tvars>>

\* case "add", lines 407-423: a definition is read until one is absent, then
\* the card is stored.
AddReadDef(def) ==
  /\ pc = "addDef"
  /\ IF TryAddCardDef(cards, def)
     THEN /\ pc' = "prompt"
          /\ cards' = AddCard(cards, loc.term, def)
          /\ loc' = NoLoc
     ELSE UNCHANGED <<pc, cards, loc>>
  /\ clast' = [NoAction EXCEPT !.op = "addDef", !.ok = TryAddCardDef(cards, def)]
  /\ UNCHANGED <<open, hist, vars, lvars, tvars>>

\* case "remove", lines 425-429.
CmdRemove(term) ==
  LET r == RemoveCard(cards, term)
  IN /\ pc = "prompt"
     /\ cards' = CollectCards(r.cards)
     /\ clast' = [NoAction EXCEPT !.op = "remove", !.ok = r.ok]
     /\ hist' = NoImport
     /\ UNCHANGED <<pc, loc, open, vars, lvars, tvars>>

\* case "import", lines 431-440: os.OpenFile fails.
CmdImportNotFound ==
  /\ pc = "prompt"
  /\ clast' = [NoAction EXCEPT !.op = "importNotFound"]
  /\ hist' = NoImport
  /\ UNCHANGED <<cards, pc, loc, open, vars, lvars, tvars>>

\* case "import", lines 431-441: the file opens and ImportCards starts.
CmdImport ==
  /\ pc = "prompt"
  /\ pc' = "import"
  /\ open' = open \cup {"import"}
  /\ loc' = [NoLoc EXCEPT !.imported = 0]
  /\ clast' = [NoAction EXCEPT !.op = "importOpen", !.ok = TRUE]
  /\ hist' = [NoImport EXCEPT !.terms0 = TraversalKeys(cards.TermToDef),
                              !.defs0 = TraversalKeys(cards.DefToTerm)]
  /\ UNCHANGED <<cards, vars, lvars, tvars>>

\* ImportCards, lines 269-280: scanner.Scan() yields a line.  log.Fatal ends
\* the process, and with it every open handle.
ImportScan(line) ==
  LET r == ImportLine(line, cards)
  IN /\ pc = "import"
     /\ loc.imported < MaxLines
     /\ cards' = r.cards
     /\ pc' = IF r.fatal THEN "exited" ELSE "import"
     /\ open' = IF r.fatal THEN {} ELSE open
     /\ loc' = IF r.fatal THEN NoLoc ELSE [loc EXCEPT !.imported = @ + 1]
     /\ clast' = [NoAction EXCEPT !.op = "import", !.ok = ~r.fatal,
                                  !.n = IF r.fatal THEN loc.imported ELSE loc.imported + 1]
     /\ hist' = [hist EXCEPT
                   !.read = IF line.json
                            THEN Append(@, <<line.obj.term, line.obj.def>>) ELSE @,
                   !.calls = @ \o r.calls]
     /\ UNCHANGED <<vars, lvars, tvars>>

\* ImportCards, line 281, and main, lines 442-443: scanner.Scan() reports the
\* end of the file and the count is printed.
ImportEOF ==
  /\ pc = "import"
  /\ pc' = "prompt"
  /\ loc' = NoLoc
  /\ clast' = [NoAction EXCEPT !.op = "imported", !.ok = TRUE, !.n = loc.imported]
  /\ UNCHANGED <<cards, open, hist, vars, lvars, tvars>>

\* case "export", lines 445-455: ExportCards closes the file when it returns.
CmdExport ==
  LET r == ExportCards(cards)
  IN /\ pc = "prompt"
     /\ open' = (open \cup {"export"}) \ {"export"}
     /\ clast' = [NoAction EXCEPT !.op = "export", !.ok = TRUE, !.n = r.exported]
     /\ hist' = NoImport
     /\ UNCHANGED <<cards, pc, loc, vars, lvars, tvars>>

\* case "export", lines 449-452: os.OpenFile fails and log.Fatal ends the process.
CmdExportOpenFails ==
  /\ pc = "prompt"
  /\ pc' = "exited"
  /\ open' = {}
  /\ clast' = [NoAction EXCEPT !.op = "export"]
  /\ hist' = NoImport
  /\ UNCHANGED <<cards, loc, vars, lvars, tvars>>

\* case "ask", lines 457-460: ReadAsks, then the for statement's init and
\* first test of idx < asks.
CmdAsk(asks) ==
  /\ pc = "prompt"
  /\ loc' = IF 0 < asks
            THEN [loc EXCEPT !.asks = asks, !.idx = 0, !.pair = Oldest(cards.TermToDef)]
            ELSE NoLoc
  /\ pc' = IF 0 < asks THEN "askPrompt" ELSE "prompt"
  /\ clast' = [NoAction EXCEPT !.op = "ask"]
  /\ hist' = NoImport
  /\ UNCHANGED <<cards, open, vars, lvars, tvars>>

\* case "ask", lines 461-466: the prompt for the next pair.
AskPrompt ==
  LET pair == AskPair(cards, loc.pair)
  IN /\ pc = "askPrompt"
     /\ loc' = [loc EXCEPT !.pair = pair]
     /\ IF pair = Nil
        THEN /\ pc' = "panic"
             /\ clast' = [clast EXCEPT !.op = "askPanic"]
        ELSE /\ pc' = "askRead"
             /\ clast' = [clast EXCEPT !.op = "askPrompt", !.n = @ + 1]
     /\ UNCHANGED <<cards, open, hist, vars, lvars, tvars>>

\* case "ask", lines 468-485 and the for statement's post and test: the
\* answer is read and judged, then pair, idx = pair.Next(), idx+1.
AskRead(userDef) ==
  LET def == cards.TermToDef.pair[loc.pair].Value
      wrong == userDef # def
  IN /\ pc = "askRead"
     /\ wrong => GetTermError(cards.DefToTerm, def).val.Errors < MaxErrors
     /\ cards' = AskAnswer(cards, loc.pair, userDef)
     /\ loc' = IF loc.idx + 1 < loc.asks
               THEN [loc EXCEPT !.pair = PairNext(cards.TermToDef, loc.pair), !.idx = @ + 1]
               ELSE NoLoc
     /\ pc' = IF loc.idx + 1 < loc.asks THEN "askPrompt" ELSE "prompt"
     /\ clast' = [clast EXCEPT !.op = "askRead", !.ok = ~wrong]
     /\ UNCHANGED <<open, hist, vars, lvars, tvars>>

\* case "reset stats", lines 507-512.
CmdResetStats ==
  LET r == ResetStats(cards)
  IN /\ pc = "prompt"
     /\ cards' = r.cards
     /\ clast' = [NoAction EXCEPT !.op = "reset stats", !.ok = r.done, !.n = Len(r.visited)]
     /\ hist' = NoImport
     /\ UNCHANGED <<pc, loc, open, vars, lvars, tvars>>

\* case "hardest card", lines 503-506.
CmdHardestCard ==
  LET ans == HardestCard(cards)
  IN /\ pc = "prompt"
     /\ clast' = [NoAction EXCEPT !.op = "hardest card", !.ok = (ans.text # NoErrorsText),
                                  !.n = Len(ans.names)]
     /\ hist' = NoImport
     /\ UNCHANGED <<cards, pc, loc, open, vars, lvars, tvars>>

\* case "exit", lines 487-490.
CmdExit ==
  /\ pc = "prompt"
  /\ pc' = "exited"
  /\ open' = {}
  /\ clast' = [NoAction EXCEPT !.op = "exit"]
  /\ hist' = NoImport
  /\ UNCHANGED <<cards, loc, vars, lvars, tvars>>

CardsNext ==
  \/ CmdAdd
  \/ \E term \in Terms : AddReadTerm(term)
  \/ \E def \in Defs : AddReadDef(def)
  \/ \E term \in Terms : CmdRemove(term)
  \/ CmdImportNotFound
  \/ CmdImport
  \/ \E line \in FileLines : ImportScan(line)
  \/ ImportEOF
  \/ CmdExport
  \/ CmdExportOpenFails
  \/ \E asks \in 0..MaxAsks : CmdAsk(asks)
  \/ AskPrompt
  \/ \E userDef \in Answers : AskRead(userDef)
  \/ CmdResetStats
  \/ CmdHardestCard
  \/ CmdExit

CardsSpec == Init /\ [][CardsNext]_allvars

\* ------------------------------------------------------ List: its callers

\* l.PushBack(v) on the List i; the caller keeps the *Element returned.
CallPushBack(i, v) ==
  LET l == ListView(lw, i)
      live == Live(lw, handles)
      r == PushBack(l, v, live)
  IN /\ newElement(l, live) # Nil
     /\ lw' = WithList(lw, i, r.l)
     /\ handles' = handles \cup {r.e}
     /\ llast' = [op |-> "PushBack", list |-> i, linked |-> FALSE]
     /\ UNCHANGED <<vars, cvars, tvars>>

\* l.Remove(e) on the List i, e an *Element that a PushBack returned.
\* linked: e was in the ring of l before the call.
CallRemove(i, e) ==
  LET l == ListView(lw, i)
      r == Remove(l, e)
  IN /\ e \in handles
     /\ lw' = WithList(lw, i, r.l)
     /\ llast' = [op |-> "Remove", list |-> i, linked |-> e \in RingElements(l)]
     /\ UNCHANGED <<handles, vars, cvars, tvars>>

\* l.Init() on the List i.
CallInit(i) ==
  /\ lw' = ListCollect(WithList(lw, i, ListInit(ListView(lw, i))), handles)
  /\ llast' = [op |-> "Init", list |-> i, linked |-> FALSE]
  /\ UNCHANGED <<handles, vars, cvars, tvars>>

\* The caller forgets an *Element.
Forget(e) ==
  /\ e \in handles
  /\ handles' = handles \ {e}
  /\ lw' = ListCollect(lw, handles \ {e})
  /\ llast' = [op |-> "forget", list |-> Self, linked |-> FALSE]
  /\ UNCHANGED <<vars, cvars, tvars>>

\* Callers that use PushBack and Remove only.
ListNext ==
  \/ \E i \in Lists, v \in ListValues : CallPushBack(i, v)
  \/ \E i \in Lists, e \in ElemIds : CallRemove(i, e)
  \/ \E e \in ElemIds : Forget(e)

ListSpec == Init /\ [][ListNext]_allvars

\* Callers that also reset a List by Init.
ListResetNext ==
  \/ \E i \in Lists, v \in ListValues : CallPushBack(i, v)
  \/ \E i \in Lists, e \in ElemIds : CallRemove(i, e)
  \/ \E i \in Lists : CallInit(i)
  \/ \E e \in ElemIds : Forget(e)

ListResetSpec == Init /\ [][ListResetNext]_allvars

\* ------------------------------------- OrderedMap: a traversal under way

\* The loop for pair := om.Oldest(); pair != nil; pair = pair.Next() holds
\* its pair: the Pair, and the Element it refers to, are not free memory
\* even after a Delete of the pair.
CanAllocBeside(m, k, pair) ==
  \/ k \in DOMAIN m.pairs
  \/ /\ newPair(m) # Nil /\ newElement(m.list, HeldElements(m)) # Nil
     /\ pair # Nil => /\ newPair(m) # pair
                      /\ newElement(m.list, HeldElements(m)) # m.pair[pair].element

\* pair := om.Oldest() : the loop starts, and visits its first pair.
TravStart ==
  LET p == Oldest(tom)
      keys == TraversalKeys(tom)
  IN /\ trav.state # "running"
     /\ trav' = IF p = Nil
                THEN [NoTraversal EXCEPT !.state = "done"]
                ELSE [NoTraversal EXCEPT !.state = "running", !.pair = p,
                                         !.pending = Tail(keys),
                                         !.visited = <<tom.pair[p].Key>>]
     /\ UNCHANGED <<tom, vars, cvars, lvars>>

\* pair = pair.Next() and the test pair != nil : the loop visits the next
\* pair or ends.
TravNext ==
  LET p == PairNext(tom, trav.pair)
  IN /\ trav.state = "running"
     /\ trav' = IF p = Nil
                THEN [trav EXCEPT !.state = "done", !.pair = Nil]
                ELSE LET k == tom.pair[p].Key
                     IN [trav EXCEPT !.pair = p,
                                     !.visited = Append(@, k),
                                     !.inOrder = @ /\ (trav.pending = <<>> \/ k = Head(trav.pending)),
                                     !.pending = Without(@, k)]
     /\ UNCHANGED <<tom, vars, cvars, lvars>>

\* om.Set(k, v) in the body of the loop, or outside of a loop.
TravSet(k, v) ==
  /\ CanAllocBeside(tom, k, trav.pair)
  /\ tom' = Set(tom, k, v).om
  /\ trav' = [trav EXCEPT !.mutated = (trav.state = "running")]
  /\ UNCHANGED <<vars, cvars, lvars>>

\* om.Delete(k) in the body of the loop, or outside of a loop.
TravDelete(k) ==
  /\ tom' = Delete(tom, k).om
  /\ trav' = IF trav.state = "running"
             THEN [trav EXCEPT !.mutated = TRUE,
                               !.pending = Without(@, k),
                               !.visited = Without(@, k),
                               !.stale = @ \/ (k \in DOMAIN tom.pairs /\ tom.pairs[k] = trav.pair)]
             ELSE trav
  /\ UNCHANGED <<vars, cvars, lvars>>

TraversalNext ==
  \/ TravStart
  \/ TravNext
  \/ \E k \in Keys, v \in Values : TravSet(k, v)
  \/ \E k \in Keys : TravDelete(k)

TraversalSpec == Init /\ [][TraversalNext]_allvars

\* ------------------------------------------------------ properties: helpers

\* The keys for which Get reports present = true.
PresentKeys(m) == {k \in Keys : Get(m, k).present}

\* No entry occurs twice in the sequence.
NoDup(s) == \A i, j \in 1..Len(s) : i # j => s[i] # s[j]

\* The last call was op on a key that was present / absent before the call.
LastWasOn(op) == last.op = op
WasPresent == last.key \in DOMAIN pre.pairs

\* ------------------------------------------------------------------ claims

\* C1: after every Set / Delete on a map created by New, the set of keys for
\* which Get reports present = true equals the set of keys the traversal
\* Oldest(), Next(), ... visits before it reaches nil.
C1_GetKeysEqualTraversalKeys ==
  /\ Terminates(om)
  /\ PresentKeys(om) = Range(TraversalKeys(om))

\* C1 witness: a Delete has just removed one of three present keys.
C1_Witness ==
  /\ LastWasOn("Delete") /\ last.present
  /\ Cardinality(PresentKeys(pre)) = 3
  /\ Cardinality(Range(TraversalKeys(om))) = 2

\* C2: the traversal from Oldest() by Pair.Next() yields every present pair
\* exactly once, in the order of the first Set of each key since that key's
\* last Delete, and then reaches nil after exactly as many pairs as there
\* are present keys.
C2_TraversalIsInsertionOrder ==
  LET t == Traversal(om)
  IN /\ Terminates(om)
     /\ NoDup(t)
     /\ Len(t) = Cardinality(PresentKeys(om))
     /\ TraversalKeys(om) = firstSetOrder
     /\ \A i \in 1..Len(t) :
          /\ om.pair[t[i]].Key \in DOMAIN om.pairs
          /\ om.pairs[om.pair[t[i]].Key] = t[i]

\* C2 witness: three keys are present and their insertion order differs from
\* both the order of the keys and the order of the heap addresses.
C2_Witness ==
  /\ TraversalKeys(om) = <<"c", "a", "b">>
  /\ Traversal(om)[1] > Traversal(om)[2]
  /\ everDeleted # {}

\* C3: Set never reorders.  Set(k, v) with k absent appends k at the end of
\* the traversal and leaves the entries before it as they were; Set(k, v)
\* with k present changes only k's value and leaves the traversal key
\* sequence, k's position included, unchanged.
C3_SetNeverReorders ==
  LastWasOn("Set") =>
    LET before == TraversalEntries(pre)
        after  == TraversalEntries(om)
    IN /\ Terminates(om)
       /\ IF WasPresent
          THEN /\ TraversalKeys(om) = TraversalKeys(pre)
               /\ \A i \in 1..Len(after) :
                    after[i] = IF after[i][1] = last.key
                               THEN <<last.key, last.value>>
                               ELSE before[i]
          ELSE after = Append(before, <<last.key, last.value>>)

\* C3 witness: Set on the oldest of three present keys changed its value.
C3_Witness ==
  /\ LastWasOn("Set") /\ WasPresent
  /\ Len(TraversalKeys(pre)) = 3
  /\ TraversalKeys(pre)[1] = last.key
  /\ last.val # last.value

\* C4: a key that was deleted and is Set again is the last key of the
\* traversal right after that Set; its earlier position is not restored
\* (Set a, Set b, Set c, Delete b, Set b gives the traversal a, c, b).
C4_ReinsertedKeyIsLast ==
  (LastWasOn("Set") /\ ~WasPresent /\ last.key \in everDeleted) =>
    LET keys == TraversalKeys(om)
    IN /\ Terminates(om)
       /\ keys = Append(TraversalKeys(pre), last.key)
       /\ keys[Len(keys)] = last.key

\* C4 witness: b, deleted from between a and c, has been Set again and the
\* traversal is a, c, b.
C4_Witness ==
  /\ LastWasOn("Set") /\ last.key = "b" /\ ~WasPresent
  /\ everDeleted = {"b"}
  /\ TraversalKeys(pre) = <<"a", "c">>
  /\ TraversalKeys(om) = <<"a", "c", "b">>

\* C5: right after Delete(k), Get(k) returns present = false and the
\* traversal does not yield k, while every other key that was present is
\* still yielded, in the same relative order.
C5_DeleteRemovesOnlyTheKey ==
  LastWasOn("Delete") =>
    /\ ~Get(om, last.key).present
    /\ Terminates(om)
    /\ last.key \notin Range(TraversalKeys(om))
    /\ TraversalEntries(om) = SelectSeq(TraversalEntries(pre), LAMBDA en : en[1] # last.key)

\* C5 witness: the middle one of three present keys has been deleted.
C5_Witness ==
  /\ LastWasOn("Delete") /\ WasPresent
  /\ Len(TraversalKeys(pre)) = 3
  /\ TraversalKeys(pre)[2] = last.key
  /\ Len(TraversalKeys(om)) = 2

\* C6: Delete(k) on an absent key returns present = false with the zero
\* value and leaves the map unchanged: the hash map, the list length and the
\* traversal (keys and values) are the same before and after, so a repeated
\* Delete(k) has the effect of a single one.
C6_DeleteAbsentIsNoOp ==
  /\ (LastWasOn("Delete") /\ ~WasPresent) =>
       /\ last.val = ZeroV /\ ~last.present
       /\ om.pairs = pre.pairs
       /\ om.list.len = pre.list.len
       /\ TraversalEntries(om) = TraversalEntries(pre)
       /\ om = pre
  /\ LastWasOn("Delete") =>
       LET again == Delete(om, last.key)
       IN /\ ~again.present /\ again.val = ZeroV
          /\ again.om = om

\* C6 witness: Delete of a key that an earlier Delete had removed, on a map
\* that still holds two other keys.
C6_Witness ==
  /\ LastWasOn("Delete") /\ ~WasPresent
  /\ last.key \in everDeleted
  /\ Len(TraversalKeys(om)) = 2

\* C7: Set(k, v) and Delete(k) each return the (value, present) pair that
\* Get(k) would have returned right before the call: the old value and true
\* when k was present, the zero value and false when it was absent.
C7_ReturnIsPriorGet ==
  (LastWasOn("Set") \/ LastWasOn("Delete")) =>
    /\ [val |-> last.val, present |-> last.present] = Get(pre, last.key)
    /\ last.present = WasPresent
    /\ ~WasPresent => last.val = ZeroV

\* C7 witness: Set has replaced the non-zero value of a present key by
\* another value and returned the old one.
C7_Witness ==
  /\ LastWasOn("Set") /\ WasPresent
  /\ last.present /\ last.val = "x" /\ last.value = ZeroV

\* The answer Get(k) owes according to the history of Set / Delete calls.
Expected(k) ==
  IF k \in DOMAIN lastSetValue
  THEN [val |-> lastSetValue[k], present |-> TRUE]
  ELSE [val |-> ZeroV, present |-> FALSE]

\* C8: Get(k) returns (v, true) where v is the value of the most recent
\* Set(k, _) since k's last Delete, and (zero value, false) when k is absent;
\* Get changes nothing: the hash map, the list and the traversal are the
\* same before and after a Get.
C8_GetReturnsLatestAndChangesNothing ==
  /\ \A k \in Keys : Get(om, k) = Expected(k)
  /\ LastWasOn("Get") =>
       /\ [val |-> last.val, present |-> last.present] = Expected(last.key)
       /\ om = pre
       /\ TraversalEntries(om) = TraversalEntries(pre)

\* C8 witness: Get has returned the zero value with present = true for a key
\* that was deleted, Set again and then Set to the zero value.
C8_Witness ==
  /\ LastWasOn("Get") /\ last.present /\ last.val = ZeroV
  /\ last.key \in everDeleted
  /\ Len(TraversalKeys(om)) = 3 /\ TraversalKeys(om)[1] # last.key

\* C9: Oldest() returns nil exactly when the map has no present keys;
\* otherwise it returns the pair of the key whose first Set is the earliest
\* among the present keys, also after the previous oldest key was deleted.
C9_OldestIsFirstInserted ==
  /\ (Oldest(om) = Nil) <=> (PresentKeys(om) = {})
  /\ (Oldest(om) = Nil) <=> (firstSetOrder = <<>>)
  /\ Oldest(om) # Nil =>
       /\ firstSetOrder # <<>>
       /\ om.pair[Oldest(om)].Key = firstSetOrder[1]
       /\ Head(firstSetOrder) \in DOMAIN om.pairs
       /\ om.pairs[Head(firstSetOrder)] = Oldest(om)
  /\ LastWasOn("Oldest") => last.pair = Oldest(om)

\* C9 witness: Oldest() has returned the pair of b after a, the oldest key
\* before, was deleted and Set again.
C9_Witness ==
  /\ LastWasOn("Oldest") /\ last.pair # Nil
  /\ om.pair[last.pair].Key = "b"
  /\ firstSetOrder = <<"b", "c", "a">>
  /\ "a" \in everDeleted

\* C10: each hash-map entry's pair is the value of exactly one element linked
\* in the list and that pair's Key is the hash-map key; no key occurs twice
\* in the traversal, and the list length is the number of hash-map entries.
C10_MapAndListAgree ==
  /\ \A k \in DOMAIN om.pairs :
       /\ Cardinality({e \in RingElements(om.list) : om.list.elem[e].Value = om.pairs[k]}) = 1
       /\ om.pair[om.pairs[k]].element \in RingElements(om.list)
       /\ om.list.elem[om.pair[om.pairs[k]].element].Value = om.pairs[k]
       /\ om.pair[om.pairs[k]].Key = k
  /\ NoDup(TraversalKeys(om))
  /\ om.list.len = Cardinality(DOMAIN om.pairs)
  /\ om.list.len = Cardinality(RingElements(om.list))

\* C10 witness: three entries are linked, and a, the key inserted last,
\* lives at the heap address a deleted pair had before.
C10_Witness ==
  /\ Cardinality(DOMAIN om.pairs) = 3
  /\ om.list.len = 3
  /\ everDeleted # {}
  /\ firstSetOrder[3] = "a"
  /\ om.pairs["a"] = 1

\* ------------------------------------------------------ card store: claims

\* The keys of a map of the card store, and its traversal.
KeysOf(m) == DOMAIN m.pairs
Entries(m) == TraversalEntries(m)
EntriesWithout(m, k) == SelectSeq(Entries(m), LAMBDA en : en[1] # k)
NumCards == Len(Traversal(cards.TermToDef))

\* TermToDef maps t to d exactly when DefToTerm maps d to an entry with Term t.
LockStep(c) ==
  /\ \A t \in KeysOf(c.TermToDef) :
       LET d == Get(c.TermToDef, t).val
       IN /\ GetTermError(c.DefToTerm, d).present
          /\ GetTermError(c.DefToTerm, d).val.Term = t
  /\ \A d \in KeysOf(c.DefToTerm) :
       LET t == GetTermError(c.DefToTerm, d).val.Term
       IN /\ Get(c.TermToDef, t).present
          /\ Get(c.TermToDef, t).val = d
  /\ Cardinality(KeysOf(c.TermToDef)) = Cardinality(KeysOf(c.DefToTerm))

\* C11: the card store keeps its two maps in lock-step: after any sequence
\* of add, remove, import, ask and reset-stats actions TermToDef maps t to d
\* if and only if DefToTerm maps d to an entry whose Term is t.
C11_MapsInLockStep == pc = "prompt" => LockStep(cards)

\* C12: RemoveCard(term) for a present term deletes the term from TermToDef
\* and the definition it had from DefToTerm and leaves every other entry of
\* both maps, and their order, unchanged; for an absent term it returns
\* false and changes neither map.
C12_RemoveCardFrame ==
  pc = "prompt" =>
    \A term \in Terms :
      LET g == Get(cards.TermToDef, term)
          r == RemoveCard(cards, term)
      IN IF g.present
         THEN /\ r.ok
              /\ ~Get(r.cards.TermToDef, term).present
              /\ ~GetTermError(r.cards.DefToTerm, g.val).present
              /\ Terminates(r.cards.TermToDef) /\ Terminates(r.cards.DefToTerm)
              /\ Entries(r.cards.TermToDef) = EntriesWithout(cards.TermToDef, term)
              /\ Entries(r.cards.DefToTerm) = EntriesWithout(cards.DefToTerm, g.val)
         ELSE /\ ~r.ok
              /\ r.cards = cards

\* C12 witness: a card has been removed from a store of two cards whose
\* definitions both had an entry in DefToTerm.
C12_Witness ==
  /\ clast.op = "remove" /\ clast.ok
  /\ NumCards = 1
  /\ Len(Traversal(cards.DefToTerm)) = 1
  /\ LockStep(cards)

\* C13: the add action calls Set on the two maps only with a term absent
\* from TermToDef and a definition absent from DefToTerm (a rejected term or
\* definition is read again), so add never overwrites an entry: it appends
\* one new entry at the tail of each map, with error count 0.
C13_AddAppendsAbsent ==
  /\ pc = "addDef" =>
       /\ ~Get(cards.TermToDef, loc.term).present
       /\ \A def \in Defs :
            IF TryAddCardDef(cards, def)
            THEN LET c == AddCard(cards, loc.term, def)
                 IN /\ ~GetTermError(cards.DefToTerm, def).present
                    /\ Entries(c.TermToDef) = Append(Entries(cards.TermToDef), <<loc.term, def>>)
                    /\ Entries(c.DefToTerm) =
                         Append(Entries(cards.DefToTerm), <<def, TermError(loc.term, 0)>>)
            ELSE GetTermError(cards.DefToTerm, def).present
  /\ (clast.op = "addTerm" /\ ~clast.ok) => pc = "addTerm"
  /\ (clast.op = "addDef" /\ ~clast.ok) => pc = "addDef"
  /\ (clast.op = "addDef" /\ clast.ok) =>
       LET t == Entries(cards.TermToDef)
           d == Entries(cards.DefToTerm)
       IN /\ pc = "prompt"
          /\ t # <<>> /\ d # <<>>
          /\ d[Len(d)] = <<t[Len(t)][2], TermError(t[Len(t)][1], 0)>>

\* C13 witness: a second card has been added to a store whose first card
\* has an error count.
C13_Witness ==
  /\ clast.op = "addDef" /\ clast.ok
  /\ NumCards = 2
  /\ Entries(cards.DefToTerm)[1][2].Errors = 1

\* The terms and the definitions of the records read from the imported
\* file, in line order, and the Set calls one Set per record and map makes.
ReadTerms == [i \in 1..Len(hist.read) |-> hist.read[i][1]]
ReadDefs == [i \in 1..Len(hist.read) |-> hist.read[i][2]]

RECURSIVE ExpectedCalls(_)
ExpectedCalls(read) ==
  IF read = <<>> THEN <<>>
  ELSE << <<"TermToDef", Head(read)[1]>>, <<"DefToTerm", Head(read)[2]>> >>
         \o ExpectedCalls(Tail(read))

\* The first occurrences of the entries of s, in the order of s.
RECURSIVE FirstOccurrences(_)
FirstOccurrences(s) ==
  IF s = <<>> THEN <<>>
  ELSE LET d == FirstOccurrences(SubSeq(s, 1, Len(s) - 1))
       IN IF s[Len(s)] \in Range(d) THEN d ELSE Append(d, s[Len(s)])

Restrict(s, S) == SelectSeq(s, LAMBDA k : k \in S)
NewKeys(s, old) == SelectSeq(FirstOccurrences(s), LAMBDA k : k \notin Range(old))

\* C14 as stated: ImportCards calls Set once per deserialized record on
\* each map, in file order, and after the import the traversal order of the
\* term map (and of the definition map) equals the file's line order of the
\* imported records.
C14_TraversalIsFileOrder ==
  clast.op = "imported" =>
    /\ hist.calls = ExpectedCalls(hist.read)
    /\ Restrict(TraversalKeys(cards.TermToDef), Range(ReadTerms)) = FirstOccurrences(ReadTerms)
    /\ Restrict(TraversalKeys(cards.DefToTerm), Range(ReadDefs)) = FirstOccurrences(ReadDefs)

\* C14, amended: ImportCards calls Set once per deserialized record on each
\* map, in file order, and after the import the traversal of the term map
\* (and of the definition map) is the traversal it had before the import
\* followed by the file's terms (definitions) that were absent before, in
\* the order of their first line in the file; it is the file's line order
\* when the map was empty before and the file repeats no term (definition).
C14_TraversalIsOldThenNewInFileOrder ==
  clast.op \in {"importOpen", "import", "imported"} =>
    /\ hist.calls = ExpectedCalls(hist.read)
    /\ Terminates(cards.TermToDef) /\ Terminates(cards.DefToTerm)
    /\ TraversalKeys(cards.TermToDef) = hist.terms0 \o NewKeys(ReadTerms, hist.terms0)
    /\ TraversalKeys(cards.DefToTerm) = hist.defs0 \o NewKeys(ReadDefs, hist.defs0)
    /\ (hist.terms0 = <<>> /\ NoDup(ReadTerms)) => TraversalKeys(cards.TermToDef) = ReadTerms
    /\ (hist.defs0 = <<>> /\ NoDup(ReadDefs)) => TraversalKeys(cards.DefToTerm) = ReadDefs
    /\ clast.op = "imported" => clast.n = Len(hist.read)

\* C14 witness: a file with the records of a and then b has been imported
\* into a store that held b only, and the traversal is b, a.
C14_Witness ==
  /\ clast.op = "imported" /\ clast.n = 2
  /\ hist.terms0 = <<"b">>
  /\ ReadTerms = <<"a", "b">>
  /\ TraversalKeys(cards.TermToDef) = <<"b", "a">>

\* C15: ExportCards writes one JSON record per present term, in the term
\* map's traversal order from Oldest() by Next(), whatever the line order of
\* a file imported earlier; the record of a term carries its definition and
\* the error count stored for that definition (0 when DefToTerm has no entry
\* for it); the returned count is the number of term-map entries.
C15_ExportIsTraversal ==
  pc = "prompt" =>
    LET r == ExportCards(cards)
        t == Entries(cards.TermToDef)
    IN /\ Terminates(cards.TermToDef)
       /\ Len(r.out) = Len(t)
       /\ r.exported = Len(t)
       /\ r.exported = Cardinality(KeysOf(cards.TermToDef))
       /\ \A i \in 1..Len(t) :
            LET e == GetTermError(cards.DefToTerm, t[i][2])
            IN r.out[i] = Object([term |-> t[i][1], def |-> t[i][2],
                                  errors |-> IF e.present THEN e.val.Errors ELSE 0])
       /\ clast.op = "export" /\ clast.ok => clast.n = Len(t)

\* C15 witness: two cards have been exported after an import, one of them
\* with an error count.
C15_Witness ==
  /\ clast.op = "export" /\ clast.ok /\ clast.n = 2
  /\ "import" \in open
  /\ \E d \in KeysOf(cards.DefToTerm) : GetTermError(cards.DefToTerm, d).val.Errors = 1

\* The prompts of an ask action: the k-th prompt (k from 0) is for the term
\* at position k mod N of the traversal of TermToDef.
AskStates ==
  /\ pc = "askPrompt" =>
       /\ clast.n = loc.idx
       /\ loc.idx < loc.asks
  /\ pc = "askRead" =>
       /\ NumCards >= 1
       /\ clast.n = loc.idx + 1
       /\ loc.idx < loc.asks
       /\ cards.TermToDef.pair[loc.pair].Key =
            TraversalKeys(cards.TermToDef)[(loc.idx % NumCards) + 1]
  /\ pc = "panic" => NumCards = 0

\* An ask action ends after asks prompts and leaves TermToDef alone.
AskSteps ==
  /\ (pc = "askRead" /\ pc' = "prompt") => clast.n = loc.asks
  /\ (pc = "prompt" /\ clast'.op = "ask" /\ pc' = "prompt") => clast'.n = 0
  /\ pc \in {"askPrompt", "askRead"} => cards'.TermToDef = cards.TermToDef

\* C16: an ask action with n questions over N >= 1 cards presents the terms
\* in the term map's traversal order, cyclically: the k-th prompt (k from 0)
\* is for the term at position k mod N, and exactly n prompts are made.
C16_AskIsCyclic == []AskStates /\ [][AskSteps]_allvars

\* C16 witness: the third prompt over two cards is for the oldest term again.
C16_Witness ==
  /\ pc = "askRead" /\ loc.idx = 2 /\ NumCards = 2
  /\ cards.TermToDef.pair[loc.pair].Key = TraversalKeys(cards.TermToDef)[1]

\* C17: the handles of the import and of the export file are scoped to
\* their action; each is closed on every exit path, so no handle is open
\* when the program is back at its prompt.
C17_NoHandleOpenAtPrompt == pc = "prompt" => open = {}

\* Hash map, list length and traversal of a map agree.
Coherent(m) ==
  /\ Terminates(m)
  /\ NoDup(TraversalKeys(m))
  /\ Range(TraversalKeys(m)) = KeysOf(m)
  /\ m.list.len = Cardinality(KeysOf(m))

\* After a failed import: no Set was made for the record that failed.
ImportFailedStates ==
  /\ clast.op = "importNotFound" =>
       /\ pc = "prompt"
       /\ hist.calls = <<>>
  /\ (clast.op = "import" /\ ~clast.ok) =>
       /\ pc = "exited"
       /\ hist.calls = ExpectedCalls(hist.read)
       /\ Len(hist.read) = clast.n
       /\ Coherent(cards.TermToDef) /\ Coherent(cards.DefToTerm)
       /\ KeysOf(cards.TermToDef) = Range(hist.terms0) \cup Range(ReadTerms)
       /\ KeysOf(cards.DefToTerm) = Range(hist.defs0) \cup Range(ReadDefs)

\* The step that fails leaves both maps as they were.
ImportFailedSteps ==
  (clast'.op = "importNotFound" \/ (clast'.op = "import" /\ ~clast'.ok)) => cards' = cards

\* C18: a failure of import I/O does not corrupt the store: when the file
\* cannot be opened the action reports it and changes neither map, and when
\* a line cannot be deserialized the process ends without a Set for that
\* record, the records of the earlier lines being stored in full.
C18_FailedImportKeepsStore == []ImportFailedStates /\ [][ImportFailedSteps]_allvars

\* C18 witness: the second line of a file was malformed; the record of its
\* first line is stored and the process has ended.
C18_Witness ==
  /\ clast.op = "import" /\ ~clast.ok /\ clast.n = 1
  /\ pc = "exited"
  /\ hist.terms0 = <<"b">>
  /\ TraversalKeys(cards.TermToDef) = <<"b", "a">>

\* -------------------------------------------------------------- List: claims

\* The elements met on the first n steps by next from e.
RECURSIVE NextSeq(_, _, _)
NextSeq(l, e, n) ==
  IF n <= 0 \/ e = Nil THEN <<>>
  ELSE <<e>> \o NextSeq(l, l.elem[e].next, n - 1)

\* The ring of l: len steps by next from the sentinel visit len distinct
\* elements other than the sentinel, the next step is the sentinel, and prev
\* is the inverse of next.  A zero List that no PushBack has initialized has
\* root.next = root.prev = nil and len = 0, which every method reads as the
\* empty ring.
RingOk(l) ==
  IF l.elem[Root].next = Nil
  THEN l.len = 0 /\ l.elem[Root].prev = Nil
  ELSE /\ l.len >= 0
       /\ LET s == NextSeq(l, l.elem[Root].next, l.len + 1)
          IN /\ Len(s) = l.len + 1
             /\ s[l.len + 1] = Root
             /\ \A k \in 1..l.len : s[k] # Root /\ s[k] \in ElemIds
             /\ NoDup(s)
             /\ \A k \in 1..Len(s) :
                  /\ l.elem[s[k]].next # Nil /\ l.elem[s[k]].prev # Nil
                  /\ l.elem[l.elem[s[k]].next].prev = s[k]
                  /\ l.elem[l.elem[s[k]].prev].next = s[k]
             /\ \A k \in 1..l.len : l.elem[s[k]].list = Self

\* C19: after any sequence of PushBack and Remove calls on a List made by
\* Init or left at the zero value, Remove being given handles that PushBack
\* returned, the ring contains the sentinel, len steps by next from the
\* sentinel visit len distinct elements other than the sentinel and then
\* return to it, prev is the inverse of next on the ring, and len >= 0.
C19_RingInvariant ==
  \A i \in Lists : RingOk(ListView(lw, i))

\* C19 witness: a Remove has just unlinked one of the two elements pushed on
\* the List that started as the zero value; the other List holds an element.
C19_Witness ==
  /\ llast.op = "Remove" /\ llast.list = Other /\ llast.linked
  /\ lw.len = 1 /\ lw.len2 = 1
  /\ Cardinality(handles) = 3
  /\ lw.elem[Root2].next = lw.elem[Root2].prev
  /\ lw.elem[Root2].next \in handles

\* C20: List.Remove(e) changes the list only when e is linked in that
\* list's ring.  For a handle not reachable from the sentinel (already
\* removed, of another list, or pushed before Init reset the list) Remove
\* leaves the ring and len unchanged and returns e.Value; for a linked
\* handle it unlinks e, repairs both neighbours and decrements len by one.
C20_RemoveOnlyWhenLinked ==
  \A i \in Lists, e \in handles :
    LET l == ListView(lw, i)
        r == Remove(l, e)
    IN /\ r.Value = l.elem[e].Value
       /\ IF e \in RingElements(l)
          THEN /\ r.l.len = l.len - 1
               /\ RingElements(r.l) = RingElements(l) \ {e}
               /\ r.l.elem[l.elem[e].prev].next = l.elem[e].next
               /\ r.l.elem[l.elem[e].next].prev = l.elem[e].prev
          ELSE /\ r.l.len = l.len
               /\ r.l.elem[Root] = l.elem[Root]
               /\ RingElements(r.l) = RingElements(l)
               /\ \A x \in RingElements(l) : r.l.elem[x] = l.elem[x]

\* ------------------------------------------------------- traversal: claims

\* C21 as stated: when Set and Delete calls are interleaved between the
\* Next() steps of a traversal that started at Oldest(), every pair that was
\* present when the traversal started, has not yet been visited and is not
\* itself deleted is still visited, in insertion order, before the
\* traversal returns nil, and no pair is visited twice.
C21_PendingPairsAreVisited ==
  /\ trav.inOrder
  /\ NoDup(trav.visited)
  /\ trav.state = "done" => trav.pending = <<>>

\* C21, amended: the same, provided no Delete removes the pair the traversal
\* stands on before Next() is called on it.  A Delete of that pair unlinks
\* its element, Next() on it returns nil, and the traversal ends without
\* visiting the pairs that follow.
C21_PendingPairsAreVisitedUnlessCurrentDeleted ==
  /\ trav.inOrder
  /\ NoDup(trav.visited)
  /\ (trav.state = "done" /\ ~trav.stale) => trav.pending = <<>>
  /\ (trav.state = "running" /\ trav.stale) => PairNext(tom, trav.pair) = Nil
  /\ (trav.state = "running" /\ ~trav.stale) =>
       /\ trav.pair \in Range(tom.pairs)
       /\ Restrict(TraversalKeys(tom), Range(trav.pending)) = trav.pending
       /\ trav.pending # <<>> =>
            /\ PairNext(tom, trav.pair) # Nil
            /\ tom.pair[PairNext(tom, trav.pair)].Key = Head(trav.pending)

\* C21 witness: a traversal over three pairs has ended after visiting two of
\* them; the third, not yet visited, was deleted while the traversal ran.
C21_Witness ==
  /\ trav.state = "done" /\ ~trav.stale /\ trav.mutated
  /\ Len(trav.visited) = 2
  /\ Cardinality(DOMAIN tom.pairs) = 2
  /\ Range(trav.visited) = DOMAIN tom.pairs

\* ------------------------------------------- card store: updates and stats

\* C22: card-store updates never reorder entries: the ask action and the
\* reset-stats action leave the traversal key sequence of both TermToDef
\* and DefToTerm exactly as it was, and reset-stats visits every definition
\* exactly once and terminates.
C22_UpdatesKeepKeySequences ==
  /\ pc = "askRead" =>
       \A userDef \in Answers :
         LET c == AskAnswer(cards, loc.pair, userDef)
         IN /\ TraversalKeys(c.TermToDef) = TraversalKeys(cards.TermToDef)
            /\ TraversalKeys(c.DefToTerm) = TraversalKeys(cards.DefToTerm)
  /\ pc = "prompt" =>
       LET r == ResetStats(cards)
       IN /\ r.done
          /\ r.visited = TraversalKeys(cards.DefToTerm)
          /\ NoDup(r.visited)
          /\ TraversalKeys(r.cards.TermToDef) = TraversalKeys(cards.TermToDef)
          /\ TraversalKeys(r.cards.DefToTerm) = TraversalKeys(cards.DefToTerm)

\* The error counts DefToTerm stores, the highest of them (0 for the empty
\* map) and the definitions that hold it.
ErrorCounts(c) == {GetTermError(c.DefToTerm, d).val.Errors : d \in KeysOf(c.DefToTerm)}
MaxCount(c) ==
  IF ErrorCounts(c) = {} THEN 0
  ELSE CHOOSE m \in ErrorCounts(c) : \A n \in ErrorCounts(c) : n <= m
Hardest(c) == {d \in KeysOf(c.DefToTerm) : GetTermError(c.DefToTerm, d).val.Errors = MaxCount(c)}

\* The error count of the card of term t: the one stored for its definition.
CardCount(c, t) ==
  LET e == GetTermError(c.DefToTerm, Get(c.TermToDef, t).val)
  IN IF e.present THEN e.val.Errors ELSE 0
MaxCardCount(c) ==
  LET counts == {CardCount(c, t) : t \in KeysOf(c.TermToDef)}
  IN IF counts = {} THEN 0 ELSE CHOOSE m \in counts : \A n \in counts : n <= m
HardestTerms(c) == {t \in KeysOf(c.TermToDef) : CardCount(c, t) = MaxCardCount(c)}

C24_AskNeverDereferencesNil ==
  /\ pc # "panic"
  /\ pc = "askPrompt" => AskPair(cards, loc.pair) # Nil

\* C25: in every reachable card-store state a wrong answer to the prompt for
\* term t with definition d increases the error count stored in DefToTerm
\* for d by exactly one while keeping that entry's Term equal to t, creates
\* no new DefToTerm entry and leaves every other entry's count unchanged; a
\* correct answer changes no error count.
C25_WrongAnswerCountsOnce ==
  pc = "askRead" =>
    LET t == cards.TermToDef.pair[loc.pair].Key
        d == cards.TermToDef.pair[loc.pair].Value
    IN \A userDef \in Answers :
         LET c == AskAnswer(cards, loc.pair, userDef)
         IN IF userDef = d
            THEN Entries(c.DefToTerm) = Entries(cards.DefToTerm)
            ELSE /\ KeysOf(c.DefToTerm) = KeysOf(cards.DefToTerm)
                 /\ GetTermError(cards.DefToTerm, d).present
                 /\ GetTermError(cards.DefToTerm, d).val.Term = t
                 /\ GetTermError(c.DefToTerm, d).val =
                      TermError(t, GetTermError(cards.DefToTerm, d).val.Errors + 1)
                 /\ \A other \in KeysOf(cards.DefToTerm) \ {d} :
                      GetTermError(c.DefToTerm, other) = GetTermError(cards.DefToTerm, other)

\* C26: in every reachable card-store state HardestCard returns "There are
\* no cards with errors." exactly when no card has a positive error count
\* (the empty store included), and otherwise names a card whose error count
\* is the maximum over all cards, that maximum being positive; the error
\* counts stored in DefToTerm are never negative.
C26_HardestCardNamesAMaximum ==
  pc = "prompt" =>
    LET ans == HardestCard(cards)
    IN /\ \A n \in ErrorCounts(cards) : n >= 0
       /\ (ans.text = NoErrorsText) <=> (MaxCardCount(cards) <= 0)
       /\ ans.text # NoErrorsText =>
            /\ ans.text \in {OneCardText, CardsText}
            /\ ans.names # <<>>
            /\ \A i \in 1..Len(ans.names) : ans.names[i] \in HardestTerms(cards)

\* The same statements in the states where the two maps are in lock-step.
UpdatesInLockStep ==
  LockStep(cards) => C22_UpdatesKeepKeySequences /\ C25_WrongAnswerCountsOnce

====
